---- MODULE Spec2Model ----
(***************************************************************************)
(* Model of lead_scraper.py: the four scraping runs (scrape_google_maps,   *)
(* scrape_yahoo_dork, scrape_bing_dork, scrape_google_dork) driven by      *)
(* main(), and the dedup/validation pipeline process_and_clean_data.       *)
(*                                                                         *)
(* Spec          one run of main(): configuration, browser acquisition,    *)
(*               the scroll/page loop, release, hand-over to the pipeline. *)
(* FairSpec      Spec with weak fairness of the run's steps (every browser *)
(*               call returns or fails).                                   *)
(* PipelineSpec  process_and_clean_data applied to a bounded raw list.     *)
(* DedupSpec     the same on lists with empty emails.                      *)
(* ValidateSpec  validate_phone on phone strings.                          *)
(* BlockSpec     the result blocks of a dork scraper, either target.       *)
(* LinkSpec      the result blocks in profile-target mode, by their URLs.  *)
(* ProfileSpec   is_valid_profile_url on a URL.                            *)
(* NameSpec      the business name of a listing or a result block.         *)
(* RetrySpec     a wrapper made by retry_on_failure.                       *)
(* LimiterSpec   RateLimiter.wait.                                         *)
(* ParseSpec     parse_search_prompt on a prompt.                          *)
(* FeedSpec      the loop of scrape_google_maps with                       *)
(*               scrape_listing_details step by step.                      *)
(***************************************************************************)
EXTENDS Integers, Sequences, FiniteSets, TLC

VARIABLES
    search_type,    \* SEARCH_CONFIG["search_type"]
    max_scrolls,    \* SEARCH_CONFIG["max_scrolls"]
    results_limit,  \* SEARCH_CONFIG["results_limit"]
    pc,             \* position of the single thread of control
    scroll_count,   \* local scroll_count of the scraping function
    results,        \* local results of the scraping function
    seen,           \* seen_businesses / seen_emails / seen_profiles
    listings,       \* items of the current cycle still to be processed
    browser,        \* "none" | "open" | "closed"
    driver,         \* Playwright driver p: "none" | "started" | "stopped"
    acquired,       \* _initialize_browser returned (p, browser, page)
    exc,            \* exception in flight: "none" | "Exception" | ...
    cause,          \* the call that raised it
    cycles,         \* number of loop bodies entered (history)
    raw_results,    \* main's raw_results; the pipeline's raw_data
    df,             \* result of process_and_clean_data
    target,         \* SEARCH_CONFIG["target"]: "email" | "profile"
    phone_arg,      \* argument of a direct call of validate_phone
    validated,      \* its result
    revalidated,    \* the result of validate_phone on that result
    block,          \* the result block a dork scraper processed last
    profile,        \* a direct call of is_valid_profile_url: url and verdict
    retry,          \* the frame of a wrapper made by retry_on_failure
    limiter,        \* the fields of the RateLimiter instance rate_limiter
    now,            \* time.time(), in ticks of half a second
    wait_time,      \* local wait_time of RateLimiter.wait
    parse,          \* a direct call of parse_search_prompt: prompt and result
    captcha,        \* the results page shows a CAPTCHA form
    advance,        \* the page advance of the last cycle of a dork scraper
    detail          \* the feed of the map page and the detail pages of its listings

vars == <<search_type, max_scrolls, results_limit, pc, scroll_count, results,
          seen, listings, browser, driver, acquired, exc, cause, cycles,
          raw_results, df, target, phone_arg, validated, revalidated, block,
          profile, retry, limiter, now, wait_time, parse, captcha, advance,
          detail>>

\* The variables of direct calls of is_valid_profile_url, of a retry wrapper,
\* of the rate limiter and of parse_search_prompt.
unitVars == <<profile, retry, limiter, now, wait_time, parse>>

\* The variables of direct calls of validate_phone and of the processing of
\* one result block, idle elsewhere.
auxVars ==
    <<phone_arg, validated, revalidated, block, unitVars, captcha, advance, detail>>

\* The state of the results page, as far as a dork scraper reads it.
pageVars == <<captcha, advance, detail>>

(***************************************************************************)
(* Bounds of the model.                                                    *)
(***************************************************************************)
MaxScrolls == 3     \* max_scrolls ranges over -1..MaxScrolls
MaxLimit == 3       \* results_limit ranges over 1..MaxLimit
MaxItems == 2       \* items returned by one query_selector_all
NumKeys == 3        \* distinct listings / result blocks on the site
MaxLen == 2         \* length of a raw list handed to the pipeline directly

(***************************************************************************)
(* Lead records.  A field a scraper does not set is Missing: pandas shows  *)
(* it as NaN when another row of the frame has the column, and the column  *)
(* does not exist when no row has it.  A phone is a sequence of characters *)
(* (validate_phone works on its characters); the other fields are strings  *)
(* of which the code reads only emptiness and equality.                    *)
(***************************************************************************)
Missing == "<missing>"

Digits == {"0", "1", "2", "3", "4", "5", "6", "7", "8", "9"}

NoPhone == <<>>
ShortPhone == <<"1", "2", "3">>
GoodPhone == <<"(", "5", "5", "5", ")", " ", "1", "2", "3", "-", "4", "5", "6", "7">>

\* No result block processed yet.
NoBlock == [emails |-> <<>>, phone |-> <<>>, href |-> "", title |-> "", accepted |-> FALSE]

\* No call of is_valid_profile_url yet.
NoProfile == [url |-> <<>>, valid |-> FALSE]

\* No wrapper of retry_on_failure called.
NoRetry == [max_retries |-> 0, delay |-> 0, attempt |-> 0, calls |-> 0,
            slept |-> <<>>, raised |-> <<>>, outcome |-> "none"]

\* time.time() at the start of a run, in ticks; far more than any delay.
Epoch == 10

\* rate_limiter = RateLimiter(min_delay=1.0, max_delay=2.5), in ticks.
NewRateLimiter(min_delay, max_delay) ==
    [min_delay |-> min_delay, max_delay |-> max_delay, last_request_time |-> 0]

\* No call of parse_search_prompt yet.
NoParse ==
    [prompt |-> <<>>, env |-> [set |-> FALSE, value |-> <<>>], called |-> FALSE,
     raised |-> "none",
     config |-> [search_type |-> "none", keywords |-> <<>>, location |-> <<>>,
                 target |-> "none"]]

\* No unit is called on its own: the state of these variables in a run.
UnitsIdle ==
    /\ profile = NoProfile
    /\ retry = NoRetry
    /\ limiter = NewRateLimiter(2, 5)
    /\ now = Epoch
    /\ wait_time = 0
    /\ parse = NoParse

\* No page advance yet: next_clicked = False and nothing tried.
NoAdvance == [attempted |-> FALSE, button |-> "none", click |-> "none", rewrite |-> "none"]

\* business_data as scrape_listing_details creates it.
NoData == [name |-> <<>>, phone |-> "", website |-> "", address |-> ""]

\* No feed read and no detail page opened yet.
NoDetail ==
    [feed |-> <<>>, shown |-> 0, open |-> 0, opened |-> {}, reopened |-> {},
     data |-> NoData, returned |-> "nothing", failed |-> "none"]

MkLead(n, p, w, e) == [name |-> n, phone |-> p, website |-> w, email |-> e]

(***************************************************************************)
(* process_and_clean_data and the pandas operations it uses.               *)
(***************************************************************************)
\* A frame: status "none" (no call yet), "ok" or "KeyError"; rows in order;
\* the column labels (of the fields a lead has in this model).
Frame(st, rs, cols) == [status |-> st, rows |-> rs, columns |-> cols]

NoFrame == Frame("none", <<>>, {})

\* df[col] for the two columns used as a key of drop_duplicates.
Column(r, col) == IF col = "Email" THEN r.email ELSE r.website

RECURSIVE Pick(_, _, _)
\* The rows whose index is in S, in the frame's order, from index i on.
Pick(rows, S, i) ==
    IF i > Len(rows) THEN <<>>
    ELSE (IF i \in S THEN <<rows[i]>> ELSE <<>>) \o Pick(rows, S, i + 1)

\* A dedup that removes nothing.
drop_duplicates_keep_all(rows, col) == rows

\* A dedup that returns the rows it keeps last row first.
drop_duplicates_reversed(rows, col) ==
    LET kept == Pick(rows,
                     {i \in DOMAIN rows :
                         \A j \in 1..(i - 1) : Column(rows[j], col) # Column(rows[i], col)},
                     1)
    IN  [i \in DOMAIN kept |-> kept[Len(kept) + 1 - i]]

\* DataFrame.drop_duplicates(subset=[col], keep="first"); NaN equals NaN.
drop_duplicates(rows, col) ==
    Pick(rows,
         {i \in DOMAIN rows :
             \A j \in 1..(i - 1) : Column(rows[j], col) # Column(rows[i], col)},
         1)

\* df["has_contact"]: fillna("").str.len() > 0 on phone, website or email.
has_contact(r) ==
    \/ Len(r.phone) > 0
    \/ r.website # ""
    \/ r.email \notin {"", Missing}

\* re.sub(r"[^\d\+]", "", str(phone))
CleanPhone(phone) == SelectSeq(phone, LAMBDA c : c \in Digits \cup {"+"})

\* validate_phone with the upper limit of the length test excluded.
validate_phone_below_15(phone) ==
    IF phone = <<>> THEN phone
    ELSE IF Len(CleanPhone(phone)) >= 10 /\ Len(CleanPhone(phone)) < 15
         THEN phone
         ELSE <<>>

\* validate_phone returning an accepted phone with a "+" put in front.
validate_phone_prefixed(phone) ==
    IF phone = <<>> THEN phone
    ELSE IF Len(CleanPhone(phone)) >= 10 /\ Len(CleanPhone(phone)) <= 15
         THEN <<"+">> \o phone
         ELSE <<>>

validate_phone(phone) ==
    IF phone = <<>> THEN phone
    ELSE IF Len(CleanPhone(phone)) >= 10 /\ Len(CleanPhone(phone)) <= 15
         THEN phone
         ELSE <<>>

NameLen(r) == IF r.name \in {"", Missing} THEN 0 ELSE 1

\* A frame without its column labels.
EmptyFrame_NoSchema == Frame("ok", <<>>, {})

\* pd.DataFrame(columns=[...]) returned for an empty raw list.
EmptyFrame ==
    Frame("ok", <<>>, {"Business Name", "Phone Number", "Website", "Address", "Email"})

\* The body of process_and_clean_data on a non-empty frame; hasEmailColumn
\* says whether the frame has a column "Email".
CleanFrame(rows, hasEmailColumn) ==
    LET byEmail == /\ hasEmailColumn
                   /\ \E i \in DOMAIN rows : rows[i].email # Missing
                   /\ \E i \in DOMAIN rows : rows[i].email # ""
        df1 == IF byEmail THEN drop_duplicates(rows, "Email")
               ELSE drop_duplicates(rows, "Website")
        df2 == SelectSeq(df1, has_contact)
        df3 == [i \in DOMAIN df2 |->
                   [df2[i] EXCEPT !.phone = validate_phone(df2[i].phone)]]
        df4 == SelectSeq(df3, LAMBDA r : NameLen(r) > 0)
    IN IF ~hasEmailColumn
       THEN Frame("KeyError", <<>>, {})
       ELSE Frame("ok", df4, {"Business Name", "Phone Number", "Website", "Email"})

\* pd.DataFrame(raw_data) has a column "Email" when some record has the key.
process_and_clean_data(raw_data) ==
    IF raw_data = <<>> THEN EmptyFrame
    ELSE CleanFrame(raw_data, \E i \in DOMAIN raw_data : raw_data[i].email # Missing)

(***************************************************************************)
(* PipelineSpec: a direct call of process_and_clean_data on a raw list.    *)
(***************************************************************************)
RawNames == {"", "n1", "n2"}
RawPhones == {NoPhone, ShortPhone, GoodPhone}
RawWebsites == {"", "w1", "w2"}
RawEmails == {Missing, "", "e1", "e2"}

RawLeads ==
    {MkLead(n, p, w, e) : n \in RawNames, p \in RawPhones, w \in RawWebsites, e \in RawEmails}

PipelineInit ==
    /\ \E n \in 0..MaxLen : raw_results \in [1..n -> RawLeads]
    /\ pc = "pipeline_call"
    /\ df = NoFrame
    /\ search_type = "none"
    /\ max_scrolls = 0
    /\ results_limit = 0
    /\ scroll_count = 0
    /\ results = <<>>
    /\ seen = {}
    /\ listings = 0
    /\ browser = "none"
    /\ driver = "none"
    /\ acquired = FALSE
    /\ exc = "none"
    /\ cause = "none"
    /\ cycles = 0
    /\ target = "email"
    /\ phone_arg = <<>>
    /\ validated = <<>>
    /\ revalidated = <<>>
    /\ block = NoBlock
    /\ UnitsIdle
    /\ captcha = FALSE
    /\ advance = NoAdvance
    /\ detail = NoDetail

ProcessCall ==
    /\ pc = "pipeline_call"
    /\ df' = process_and_clean_data(raw_results)
    /\ pc' = "pipeline_done"
    /\ UNCHANGED <<target, auxVars>>
    /\ UNCHANGED <<search_type, max_scrolls, results_limit, scroll_count, results,
                   seen, listings, browser, driver, acquired, exc, cause, cycles,
                   raw_results>>

PipelineNext == ProcessCall

PipelineSpec == PipelineInit /\ [][PipelineNext]_vars

(***************************************************************************)
(* Spec: one run of main() from the call of the chosen scraping function.  *)
(***************************************************************************)
SearchTypes == {"google_maps", "yahoo_dork", "bing_dork", "google_dork"}

\* The lead a scraper builds from listing / result block k.  A map lead has
\* no Email field (scrape_listing_details); a dork lead in email-target mode
\* carries the address found in the block.
LeadOf(k) ==
    IF search_type = "google_maps"
    THEN MkLead("n" \o ToString(k), GoodPhone, "w" \o ToString(k), Missing)
    ELSE MkLead("n" \o ToString(k), NoPhone, "w" \o ToString(k), "e" \o ToString(k))

Init ==
    /\ search_type \in SearchTypes
    /\ max_scrolls \in -1..MaxScrolls
    /\ results_limit \in 1..MaxLimit
    /\ pc = "init_browser"
    /\ scroll_count = 0
    /\ results = <<>>
    /\ seen = {}
    /\ listings = 0
    /\ browser = "none"
    /\ driver = "none"
    /\ acquired = FALSE
    /\ exc = "none"
    /\ cause = "none"
    /\ cycles = 0
    /\ raw_results = <<>>
    /\ df = NoFrame
    /\ target = "email"
    /\ phone_arg = <<>>
    /\ validated = <<>>
    /\ revalidated = <<>>
    /\ block = NoBlock
    /\ UnitsIdle
    /\ captcha \in BOOLEAN
    /\ advance = NoAdvance
    /\ detail = NoDetail

\* An exception leaves the try body: control goes to the finally clause.
Raise(e, c) ==
    /\ exc' = e
    /\ cause' = c
    /\ pc' = "finally"

\* _initialize_browser, called before the try statement of the scraper.
InitializeBrowser ==
    /\ pc = "init_browser"
    /\ \/ /\ driver' = "started"
          /\ browser' = "open"
          /\ acquired' = TRUE
          /\ pc' = "goto"
          /\ UNCHANGED <<exc, cause>>
       \/ /\ exc' = "Exception"         \* async_playwright().start() fails
          /\ cause' = "init"
          /\ pc' = "return"
          /\ UNCHANGED <<driver, browser, acquired>>
       \/ /\ driver' = "started"        \* chromium.launch fails
          /\ exc' = "Exception"
          /\ cause' = "init"
          /\ pc' = "return"
          /\ UNCHANGED <<browser, acquired>>
       \/ /\ driver' = "started"        \* new_context, new_page or stealth fails
          /\ browser' = "open"
          /\ exc' = "Exception"
          /\ cause' = "init"
          /\ pc' = "return"
          /\ UNCHANGED acquired
    /\ UNCHANGED <<target, auxVars>>
    /\ UNCHANGED <<search_type, max_scrolls, results_limit, scroll_count, results,
                   seen, listings, cycles, raw_results, df>>

\* The first page.goto; its failure is caught and answered by wait_for_timeout.
Goto ==
    /\ pc = "goto"
    /\ \/ /\ pc' = IF search_type = "google_dork" THEN "captcha" ELSE "loop"
          /\ UNCHANGED <<exc, cause>>
       \/ Raise("Exception", "goto_wait")   \* wait_for_timeout raises in the handler
    /\ UNCHANGED <<target, auxVars>>
    /\ UNCHANGED <<search_type, max_scrolls, results_limit, scroll_count, results,
                   seen, listings, browser, driver, acquired, cycles, raw_results, df>>

\* scrape_google_dork only: the CAPTCHA lookup, any failure of it passed over.
CaptchaCheck ==
    /\ pc = "captcha"
    /\ pc' = "loop"
    /\ UNCHANGED <<target, auxVars>>
    /\ UNCHANGED <<search_type, max_scrolls, results_limit, scroll_count, results,
                   seen, listings, browser, driver, acquired, exc, cause, cycles,
                   raw_results, df>>

\* A loop test that admits one cycle too many.
LoopCondition_OffByOne == scroll_count <= max_scrolls

\* while scroll_count < max_scrolls
LoopCondition == scroll_count < max_scrolls

LoopTest ==
    /\ pc = "loop"
    /\ \/ /\ LoopCondition
          /\ pc' = "scroll"
          /\ cycles' = cycles + 1
       \/ /\ ~LoopCondition
          /\ pc' = "finally"
          /\ UNCHANGED cycles
    /\ UNCHANGED <<target, auxVars>>
    /\ UNCHANGED <<search_type, max_scrolls, results_limit, scroll_count, results,
                   seen, listings, browser, driver, acquired, exc, cause,
                   raw_results, df>>

\* await human_like_scroll(page): outside every try of the loop body.
Scroll ==
    /\ pc = "scroll"
    /\ \/ /\ pc' = "query"
          /\ UNCHANGED <<exc, cause>>
       \/ Raise("Exception", "scroll")
    /\ UNCHANGED <<target, auxVars>>
    /\ UNCHANGED <<search_type, max_scrolls, results_limit, scroll_count, results,
                   seen, listings, browser, driver, acquired, cycles, raw_results, df>>

\* page.query_selector_all inside the outer try of the loop body.
QueryItems ==
    /\ pc = "query"
    /\ \/ /\ listings' \in 1..MaxItems
          /\ pc' = "items"
       \/ /\ listings' = 0              \* no item, or the query raised (caught)
          /\ pc' = "advance"
    /\ UNCHANGED <<target, auxVars>>
    /\ UNCHANGED <<search_type, max_scrolls, results_limit, scroll_count, results,
                   seen, browser, driver, acquired, exc, cause, cycles, raw_results, df>>

\* One pass of the for loop over the items: the inner try.
ProcessItem ==
    /\ pc = "items"
    /\ listings > 0
    /\ \/ UNCHANGED <<results, seen>>   \* no lead, or an exception (caught)
       \/ \E k \in 1..NumKeys :
             IF k \in seen
             THEN UNCHANGED <<results, seen>>
             ELSE /\ seen' = seen \cup {k}
                  /\ results' = Append(results, LeadOf(k))
    /\ listings' = listings - 1
    /\ pc' = IF listings' = 0 THEN "advance" ELSE "items"
    /\ UNCHANGED <<target, auxVars>>
    /\ UNCHANGED <<search_type, max_scrolls, results_limit, scroll_count,
                   browser, driver, acquired, exc, cause, cycles, raw_results, df>>

\* len(results) >= SEARCH_CONFIG["results_limit"]
LimitReached == Len(results) >= results_limit

\* scrape_google_maps: count the cycle, try the "More" button, test the limit.
AdvanceMaps ==
    /\ pc = "advance"
    /\ search_type = "google_maps"
    /\ scroll_count' = scroll_count + 1
    /\ pc' = IF LimitReached THEN "finally" ELSE "loop"
    /\ UNCHANGED <<target, auxVars>>
    /\ UNCHANGED <<search_type, max_scrolls, results_limit, results, seen, listings,
                   browser, driver, acquired, exc, cause, cycles, raw_results, df>>

\* The break taken when no next page was reached.
BreakAfterFailedAdvance(count) ==
    IF search_type = "yahoo_dork" THEN TRUE ELSE count >= max_scrolls

\* A fallback that is tried whatever the click did.
RewriteTried_Always(button, click) == TRUE

\* The URL rewrite is in the except clause of the click and in the else
\* branch of "if next_button".
RewriteTried(button, click) == button = "absent" \/ click = "failed"

\* What one page advance can do.  Without an attempt (the last cycle allowed
\* by max_scrolls) nothing is looked up; with one, the control is found and
\* clicked, or it is absent; the URL rewrite follows where RewriteTried says.
AdvanceOutcomes(attempt) ==
    IF ~attempt THEN {NoAdvance}
    ELSE {a \in [attempted : {TRUE}, button : {"found", "absent"},
                 click : {"none", "ok", "failed"}, rewrite : {"none", "ok", "failed"}] :
             /\ (a.click # "none") <=> (a.button = "found")
             /\ (a.rewrite # "none") <=> RewriteTried(a.button, a.click)}

\* next_clicked after the advance
NextClicked(a) == a.click = "ok" \/ a.rewrite = "ok"

\* The dork scrapers: look up the next-page control (outside any try), click it
\* or rewrite the URL, count the cycle, test the limit.
AdvancePaged ==
    /\ pc = "advance"
    /\ search_type # "google_maps"
    /\ \/ /\ scroll_count < max_scrolls - 1
          /\ Raise("Exception", "next_lookup")
          /\ advance' = [NoAdvance EXCEPT !.attempted = TRUE, !.button = "raised"]
          /\ UNCHANGED scroll_count
       \/ \E a \in AdvanceOutcomes(scroll_count < max_scrolls - 1) :
             /\ advance' = a
             /\ scroll_count' = scroll_count + 1
             /\ pc' = IF LimitReached THEN "finally"
                      ELSE IF ~NextClicked(a) /\ BreakAfterFailedAdvance(scroll_count + 1)
                           THEN "finally"
                           ELSE "loop"
             /\ UNCHANGED <<exc, cause>>
    /\ UNCHANGED <<target, phone_arg, validated, revalidated, block, unitVars, captcha,
                   detail>>
    /\ UNCHANGED <<search_type, max_scrolls, results_limit, results, seen, listings,
                   browser, driver, acquired, cycles, raw_results, df>>

\* An external interrupt while the try body runs.  asyncio delivers it either
\* as KeyboardInterrupt raised in the running step or as a cancellation of the
\* main task (CancelledError).
Interrupt ==
    /\ pc \in {"goto", "captcha", "loop", "scroll", "query", "items", "advance"}
    /\ \E e \in {"KeyboardInterrupt", "CancelledError"} : Raise(e, "interrupt")
    /\ UNCHANGED <<target, auxVars>>
    /\ UNCHANGED <<search_type, max_scrolls, results_limit, scroll_count, results,
                   seen, listings, browser, driver, acquired, cycles, raw_results, df>>

\* A release that runs on the normal path only.
ReleaseSession_NormalPathOnly ==
    /\ pc = "finally"
    /\ IF exc = "none"
       THEN browser' = "closed" /\ driver' = "stopped"
       ELSE UNCHANGED <<browser, driver>>
    /\ pc' = "return"
    /\ UNCHANGED <<target, auxVars>>
    /\ UNCHANGED <<search_type, max_scrolls, results_limit, scroll_count, results,
                   seen, listings, acquired, exc, cause, cycles, raw_results, df>>

\* finally: await browser.close(); await p.stop()
ReleaseSession ==
    /\ pc = "finally"
    /\ browser' = "closed"
    /\ driver' = "stopped"
    /\ pc' = "return"
    /\ UNCHANGED <<target, auxVars>>
    /\ UNCHANGED <<search_type, max_scrolls, results_limit, scroll_count, results,
                   seen, listings, acquired, exc, cause, cycles, raw_results, df>>

\* The scraping function is left: main assigns raw_results on a return, and
\* handles KeyboardInterrupt and Exception; CancelledError is neither.
ReturnToMain ==
    /\ pc = "return"
    /\ \/ /\ exc = "none"
          /\ raw_results' = results
          /\ pc' = "main_after"
       \/ /\ exc \in {"Exception", "KeyboardInterrupt"}
          /\ pc' = "main_after"
          /\ UNCHANGED raw_results
       \/ /\ exc = "CancelledError"
          /\ pc' = "main_cancelled"
          /\ UNCHANGED raw_results
    /\ UNCHANGED <<target, auxVars>>
    /\ UNCHANGED <<search_type, max_scrolls, results_limit, scroll_count, results,
                   seen, listings, browser, driver, acquired, exc, cause, cycles, df>>

\* main after the try statement: stop on an empty raw_results, else clean.
MainAfter ==
    /\ pc = "main_after"
    /\ \/ /\ raw_results = <<>>
          /\ pc' = "main_done"
          /\ UNCHANGED df
       \/ /\ raw_results # <<>>
          /\ df' = process_and_clean_data(raw_results)
          /\ pc' = IF df'.status = "ok" THEN "main_done" ELSE "main_crashed"
    /\ UNCHANGED <<target, auxVars>>
    /\ UNCHANGED <<search_type, max_scrolls, results_limit, scroll_count, results,
                   seen, listings, browser, driver, acquired, exc, cause, cycles,
                   raw_results>>

Next ==
    \/ InitializeBrowser
    \/ Goto
    \/ CaptchaCheck
    \/ LoopTest
    \/ Scroll
    \/ QueryItems
    \/ ProcessItem
    \/ AdvanceMaps
    \/ AdvancePaged
    \/ Interrupt
    \/ ReleaseSession
    \/ ReturnToMain
    \/ MainAfter

Spec == Init /\ [][Next]_vars

\* Every step of the run is a browser call that returns or fails, a sleep, or
\* plain computation, so an enabled step is eventually taken.
FairSpec == Spec /\ WF_vars(Next)

(***************************************************************************)
(* Properties of a scraping run (Spec, FairSpec).                          *)
(***************************************************************************)
\* The scraping function has been left, by a return or by an exception.
ScraperLeft == pc \in {"return", "main_after", "main_done", "main_crashed", "main_cancelled"}

\* main() has ended.
MainEnded == pc \in {"main_done", "main_crashed", "main_cancelled"}

\* C1: when a scraping run ends by returning, the number of leads it returns
\* is at most results_limit.
EmittedWithinLimit ==
    (pc = "return" /\ exc = "none") => Len(results) <= results_limit

InterruptKeepsPartialResults ==
    (MainEnded /\ cause = "interrupt" /\ results # <<>>)
        => /\ browser = "closed"
           /\ driver = "stopped"
           /\ raw_results = results
           /\ df.status # "none"

\* C4: when the scroll at the start of a cycle fails after leads were
\* accumulated in earlier cycles, those leads are returned to main and handed
\* to the pipeline.
PageLossKeepsPartialResults ==
    (MainEnded /\ cause = "scroll" /\ results # <<>>)
        => (raw_results = results /\ df.status # "none")

\* C5: a failure of a single page interaction of the loop (the scroll, the
\* item query, an item's extraction, the next-page lookup or click) never makes
\* the run leave the loop with an exception.
TransientFailureNeverAborts ==
    exc = "Exception" => cause \notin {"scroll", "next_lookup"}

\* C6: the loop body is entered at most max_scrolls times (never when
\* max_scrolls <= 0), and the scraping function is eventually left.
RunTerminates ==
    /\ [](cycles <= (IF max_scrolls > 0 THEN max_scrolls ELSE 0))
    /\ <>(pc = "return")

\* C6 witness: a run that used every cycle max_scrolls allows and returned.
RunEndsAtCeiling ==
    /\ pc = "return"
    /\ exc = "none"
    /\ max_scrolls >= 2
    /\ cycles = max_scrolls

(***************************************************************************)
(* Properties of the pipeline (PipelineSpec).                              *)
(***************************************************************************)
\* The call returned a frame (it did not raise).
Cleaned == pc = "pipeline_done" /\ df.status = "ok"

\* C7: every record of the output has a non-empty business name and at least
\* one non-empty contact among the validated phone, the website and the email.
OutputHasNameAndContact ==
    Cleaned =>
        \A i \in DOMAIN df.rows :
            /\ df.rows[i].name \notin {"", Missing}
            /\ \/ Len(df.rows[i].phone) > 0
               \/ df.rows[i].website \notin {"", Missing}
               \/ df.rows[i].email \notin {"", Missing}

\* C8: the output never holds two records with the same business name (equal
\* names are equal after any normalisation).
OutputNamesUnique ==
    Cleaned =>
        \A i, j \in DOMAIN df.rows :
            i # j => df.rows[i].name # df.rows[j].name

\* C9: the output never holds two records with the same non-empty website.
OutputWebsitesUnique ==
    Cleaned =>
        \A i, j \in DOMAIN df.rows :
            (i # j /\ df.rows[i].website # "") => df.rows[i].website # df.rows[j].website

\* C10: the output never holds two records with the same non-empty email.
OutputEmailsUnique ==
    Cleaned =>
        \A i, j \in DOMAIN df.rows :
            (i # j /\ df.rows[i].email \notin {"", Missing})
                => df.rows[i].email # df.rows[j].email

\* C10 witness: two raw records that pass the filters carry the same non-empty
\* email, and the output keeps one of them.
EmailDuplicateRemoved ==
    /\ Cleaned
    /\ Len(raw_results) = 2
    /\ raw_results[1].email = "e1"
    /\ raw_results[2].email = "e1"
    /\ raw_results[1].name = "n1"
    /\ raw_results[2].name = "n2"
    /\ raw_results[2].website = "w2"
    /\ Len(df.rows) = 1
    /\ df.rows[1].name = "n1"

\* The call has returned or raised.
PipelineDone == pc = "pipeline_done"

\* A record as the pipeline leaves it: the phone validated.
Validated(r) == [r EXCEPT !.phone = validate_phone(r.phone)]

\* C11: a non-empty raw list whose records have no Email field is processed
\* without an error, and every record with a name, with a valid phone or a
\* website, and with a website no earlier record has, is in the output.
MapLeadsProcessed ==
    (/\ PipelineDone
     /\ raw_results # <<>>
     /\ \A i \in DOMAIN raw_results : raw_results[i].email = Missing)
        => /\ df.status = "ok"
           /\ \A i \in DOMAIN raw_results :
                (/\ raw_results[i].name # ""
                 /\ (validate_phone(raw_results[i].phone) # <<>> \/ raw_results[i].website # "")
                 /\ \A j \in 1..(i - 1) : raw_results[j].website # raw_results[i].website)
                    => \E k \in DOMAIN df.rows : df.rows[k] = Validated(raw_results[i])

\* process_and_clean_data applied to the records of a frame it returned; the
\* records carry every column of that frame.
Reclean(frame) ==
    IF frame.rows = <<>> THEN EmptyFrame
    ELSE CleanFrame(frame.rows, "Email" \in frame.columns)

\* C12: the pipeline applied to the records of its own output returns exactly
\* those records.
PipelineIdempotent ==
    Cleaned => (Reclean(df).status = "ok" /\ Reclean(df).rows = df.rows)

(***************************************************************************)
(* DedupSpec: process_and_clean_data on longer lists of records that all   *)
(* carry the Email key and a business name.                                *)
(***************************************************************************)
MaxDedupLen == 3

DedupLeads ==
    {MkLead(n, p, w, e) : n \in {"n1", "n2"}, p \in {NoPhone, GoodPhone},
                          w \in {"w1", "w2"}, e \in {"", "e1"}}

\* The variables of the scraping run, unused by a direct call of a function.
ScraperIdle ==
    /\ search_type = "none"
    /\ max_scrolls = 0
    /\ results_limit = 0
    /\ scroll_count = 0
    /\ results = <<>>
    /\ seen = {}
    /\ listings = 0
    /\ browser = "none"
    /\ driver = "none"
    /\ acquired = FALSE
    /\ exc = "none"
    /\ cause = "none"
    /\ cycles = 0
    /\ target = "email"
    /\ block = NoBlock
    /\ captcha = FALSE
    /\ advance = NoAdvance
    /\ detail = NoDetail

DedupInit ==
    /\ \E n \in 0..MaxDedupLen : raw_results \in [1..n -> DedupLeads]
    /\ pc = "pipeline_call"
    /\ df = NoFrame
    /\ ScraperIdle
    /\ UnitsIdle
    /\ phone_arg = <<>>
    /\ validated = <<>>
    /\ revalidated = <<>>

DedupSpec == DedupInit /\ [][PipelineNext]_vars

\* A record that passes the final filter: a name and a valid phone or a website.
PassesFinalFilter(r) ==
    /\ r.name # ""
    /\ (validate_phone(r.phone) # <<>> \/ r.website # "")

\* C13: two records with an empty email that differ in website and business
\* name, each passing the final filter, are both in the output, also when
\* another record of the list has a non-empty email.
EmptyEmailRecordsKept ==
    PipelineDone =>
        \A i \in DOMAIN raw_results : \A j \in DOMAIN raw_results :
            (/\ i < j
             /\ raw_results[i].email = ""
             /\ raw_results[j].email = ""
             /\ raw_results[i].website # raw_results[j].website
             /\ raw_results[i].name # raw_results[j].name
             /\ PassesFinalFilter(raw_results[i])
             /\ PassesFinalFilter(raw_results[j])
             /\ \E k \in DOMAIN raw_results : raw_results[k].email \notin {"", Missing})
                => /\ \E k \in DOMAIN df.rows : df.rows[k] = Validated(raw_results[i])
                   /\ \E k \in DOMAIN df.rows : df.rows[k] = Validated(raw_results[j])

\* Number of non-empty fields of a record among phone, website and email.
Score(r) ==
    (IF r.phone # NoPhone THEN 1 ELSE 0)
    + (IF r.website # "" THEN 1 ELSE 0)
    + (IF r.email \notin {"", Missing} THEN 1 ELSE 0)

\* Index of the first record with the highest score among those named n.
BestOf(n) ==
    CHOOSE i \in DOMAIN raw_results :
        /\ raw_results[i].name = n
        /\ \A j \in DOMAIN raw_results :
               raw_results[j].name = n =>
                   \/ Score(raw_results[j]) < Score(raw_results[i])
                   \/ (Score(raw_results[j]) = Score(raw_results[i]) /\ i <= j)

\* C14: of the input records that share a business name, the only one in the
\* output is the first of those with the highest information score.
BestRecordPerNameKept ==
    Cleaned =>
        \A k \in DOMAIN df.rows :
            df.rows[k] = Validated(raw_results[BestOf(df.rows[k].name)])

(***************************************************************************)
(* ValidateSpec: direct calls of validate_phone on a phone string, then on *)
(* the value it returned.                                                  *)
(***************************************************************************)
MaxDigits == 16
MaxPlus == 2
MaxOther == 2

DigitSeq == <<"0", "1", "2", "3", "4", "5", "6", "7", "8", "9">>

\* A phone string: o opening brackets, p plus signs, d digits, o dashes.
PhoneOf(p, d, o) ==
    [i \in 1..o |-> "("] \o [i \in 1..p |-> "+"]
        \o [i \in 1..d |-> DigitSeq[(i % 10) + 1]] \o [i \in 1..o |-> "-"]

PhoneStrings ==
    {PhoneOf(p, d, o) : p \in 0..MaxPlus, d \in 0..MaxDigits, o \in 0..MaxOther}

ValidateInit ==
    /\ phone_arg \in PhoneStrings
    /\ pc = "validate_call"
    /\ validated = <<>>
    /\ revalidated = <<>>
    /\ raw_results = <<>>
    /\ df = NoFrame
    /\ ScraperIdle
    /\ UnitsIdle

ValidateCall ==
    /\ pc = "validate_call"
    /\ validated' = validate_phone(phone_arg)
    /\ pc' = "validate_done"
    /\ UNCHANGED <<phone_arg, revalidated, block, unitVars, pageVars, target, raw_results, df>>
    /\ UNCHANGED <<search_type, max_scrolls, results_limit, scroll_count, results,
                   seen, listings, browser, driver, acquired, exc, cause, cycles>>

RevalidateCall ==
    /\ pc = "validate_done"
    /\ revalidated' = validate_phone(validated)
    /\ pc' = "revalidate_done"
    /\ UNCHANGED <<phone_arg, validated, block, unitVars, pageVars, target, raw_results, df>>
    /\ UNCHANGED <<search_type, max_scrolls, results_limit, scroll_count, results,
                   seen, listings, browser, driver, acquired, exc, cause, cycles>>

ValidateNext == ValidateCall \/ RevalidateCall

ValidateSpec == ValidateInit /\ [][ValidateNext]_vars

\* Number of the characters of a phone string that are digits or "+".
DialCount(phone) ==
    Cardinality({i \in DOMAIN phone : phone[i] \in Digits \cup {"+"}})

PhoneValidated == pc \in {"validate_done", "revalidate_done"}

\* C15: validate_phone of a non-empty phone string is that string when it has
\* between 10 and 15 characters that are digits or "+", and the empty string
\* otherwise.
PhoneKeptIffDialCountInRange ==
    (PhoneValidated /\ phone_arg # <<>>) =>
        validated = IF DialCount(phone_arg) >= 10 /\ DialCount(phone_arg) <= 15
                    THEN phone_arg
                    ELSE <<>>

\* A phone string with brackets and exactly 15 digits or "+" came back unchanged.
PhoneAtUpperLimitKept ==
    /\ pc = "validate_done"
    /\ DialCount(phone_arg) = 15
    /\ Len(phone_arg) > 15
    /\ validated = phone_arg

\* C16: validate_phone of the value validate_phone returned is that value.
PhoneValidationIdempotent ==
    pc = "revalidate_done" => revalidated = validated

\* An accepted phone string at the upper limit was validated a second time.
AcceptedPhoneRevalidated ==
    /\ pc = "revalidate_done"
    /\ validated # <<>>
    /\ DialCount(validated) = 15
    /\ revalidated = validated

\* C17, as stated: the output is a subsequence of the raw list, the records
\* themselves in the order of the raw list and none added.
OutputIsSubsequenceOfInput ==
    Cleaned =>
        \E S \in SUBSET DOMAIN raw_results : df.rows = Pick(raw_results, S, 1)

\* C17, amended: the output is a subsequence of the raw list after
\* validate_phone has been applied to the phone of each record; the
\* surviving records are in the order of the raw list and none is added.
OutputIsSubsequenceOfValidatedInput ==
    Cleaned =>
        \E S \in SUBSET DOMAIN raw_results :
            df.rows = Pick([i \in DOMAIN raw_results |-> Validated(raw_results[i])], S, 1)

\* Two different records survived, the first one with its phone blanked.
TwoSurvivorsOneBlanked ==
    /\ Cleaned
    /\ Len(df.rows) = 2
    /\ df.rows[1] # df.rows[2]
    /\ raw_results[1].phone = ShortPhone
    /\ df.rows[1].phone = NoPhone

\* C18: for an empty raw list process_and_clean_data raises nothing and
\* returns a frame without rows that has the columns Business Name, Phone
\* Number, Website, Address and Email.
EmptyInputGivesEmptySchemaFrame ==
    (PipelineDone /\ raw_results = <<>>) =>
        /\ df.status = "ok"
        /\ df.rows = <<>>
        /\ df.columns = {"Business Name", "Phone Number", "Website", "Address", "Email"}

\* The call on the empty list has returned.
EmptyListProcessed == PipelineDone /\ raw_results = <<>> /\ df # NoFrame

(***************************************************************************)
(* BlockSpec: the for loop of a dork scraper over the result blocks of one *)
(* page, with the text of the addresses kept character by character.       *)
(***************************************************************************)
MaxBlocks == 2
MaxBlockEmails == 2

UpperCase == <<"A", "B", "C", "D", "E", "F", "G", "H", "I", "J", "K", "L", "M",
               "N", "O", "P", "Q", "R", "S", "T", "U", "V", "W", "X", "Y", "Z">>
LowerCase == <<"a", "b", "c", "d", "e", "f", "g", "h", "i", "j", "k", "l", "m",
               "n", "o", "p", "q", "r", "s", "t", "u", "v", "w", "x", "y", "z">>

\* The lowercase letter of each capital.
LowerOf ==
    [c \in {UpperCase[k] : k \in DOMAIN UpperCase} |->
        LowerCase[CHOOSE k \in DOMAIN UpperCase : UpperCase[k] = c]]

\* str.lower() on the characters EMAIL_REGEX can match.
Lower(s) ==
    [i \in DOMAIN s |-> IF s[i] \in DOMAIN LowerOf THEN LowerOf[s[i]] ELSE s[i]]

\* str.endswith
EndsWith(s, suffix) ==
    /\ Len(s) >= Len(suffix)
    /\ SubSeq(s, Len(s) - Len(suffix) + 1, Len(s)) = suffix

\* "@example.com"
Placeholder == <<"@", "e", "x", "a", "m", "p", "l", "e", ".", "c", "o", "m">>

\* Addresses EMAIL_REGEX finds in the text of a block.
EmailTexts ==
    { <<"a", "@", "b", ".", "c", "o">>,
      <<"A", "@", "B", ".", "c", "o">>,
      <<"X", "@", "E", "x", "a", "m", "p", "l", "e", ".", "C", "O", "M">> }

\* The first link of a block: none, a profile page, a redirect through the
\* search engine.
Hrefs == {"", "profile", "redirect"}
\* The blocks of this specification have no phone number in their text.
Titles == {"", "t1"}
BlockPhones == {NoPhone}
DorkTypes == {"yahoo_dork", "bing_dork", "google_dork"}

\* x in s, for strings
Contains(s, x) ==
    \E i \in 1..(Len(s) - Len(x) + 1) : SubSeq(s, i, i + Len(x) - 1) = x

\* the list invalid of the Facebook branch
FacebookInvalid ==
    { <<"/", "h", "e", "l", "p", "/">>,
      <<"/", "l", "o", "g", "i", "n">>,
      <<"/", "a", "c", "c", "o", "u", "n", "t", "s", "/">>,
      <<"/", "p", "h", "o", "t", "o">>,
      <<"/", "v", "i", "d", "e", "o">>,
      <<"/", "s", "t", "o", "r", "y">>,
      <<"/", "g", "r", "o", "u", "p", "s", "/">>,
      <<"/", "p", "a", "g", "e", "s", "/">>,
      <<"/", "a", "p", "p", "s", "/">>,
      <<"/", "e", "v", "e", "n", "t", "s", "/">> }

\* the list invalid_patterns of the Instagram branch
InstagramInvalid ==
    { <<"/", "h", "e", "l", "p", "/">>,
      <<"/", "l", "o", "g", "i", "n">>,
      <<"/", "a", "c", "c", "o", "u", "n", "t", "s", "/">>,
      <<"/", "r", "e", "e", "l", "s", "/">>,
      <<"/", "r", "e", "e", "l", "/">>,
      <<"/", "p", "/">>,
      <<"/", "p", "o", "p", "u", "l", "a", "r", "/">>,
      <<"/", "e", "x", "p", "l", "o", "r", "e", "/">>,
      <<"/", "a", "b", "o", "u", "t", "-", "u", "s", "/">>,
      <<"/", "?", "h", "l", "=">>,
      <<"/", "t", "a", "g", "s", "/">>,
      <<"/", "s", "t", "o", "r", "i", "e", "s", "/">>,
      <<"/", "d", "i", "r", "e", "c", "t", "/">>,
      <<"/", "s", "e", "t", "t", "i", "n", "g", "s", "/">>,
      <<"/", "n", "o", "t", "i", "f", "i", "c", "a", "t", "i", "o", "n", "s", "/">>,
      <<"/", "s", "e", "a", "r", "c", "h", "/">>,
      <<"/", "a", "c", "t", "i", "v", "i", "t", "y", "/">>,
      <<"/", "a", "r", "c", "h", "i", "v", "e", "/">>,
      <<"/", "f", "u", "n", "d", "r", "a", "i", "s", "e", "r", "/">>,
      <<"/", "a", "d", "s", "/">>,
      <<"/", "b", "u", "s", "i", "n", "e", "s", "s", "/">>,
      <<"/", "d", "e", "v", "e", "l", "o", "p", "e", "r", "s", "/">>,
      <<"/", "l", "e", "g", "a", "l", "/">>,
      <<"/", "a", "b", "o", "u", "t", "/">> }

\* [a-zA-Z0-9_.]
UsernameChars ==
    {UpperCase[k] : k \in DOMAIN UpperCase} \cup {LowerCase[k] : k \in DOMAIN LowerCase}
        \cup Digits \cup {"_", "."}

FacebookCom == <<"f", "a", "c", "e", "b", "o", "o", "k", ".", "c", "o", "m">>
FbCom == <<"f", "b", ".", "c", "o", "m">>
InstagramCom == <<"i", "n", "s", "t", "a", "g", "r", "a", "m", ".", "c", "o", "m">>
InstagramComSlash == InstagramCom \o <<"/">>

\* The group of re.search(r"instagram\.com/([a-zA-Z0-9_.]+)/?$", s): the set
\* holding the username when the pattern matches, the empty set otherwise.
\* "$" also matches before a newline that ends the string.
UsernameMatch(s) ==
    {u \in {SubSeq(s, i, j) : i \in 1..Len(s), j \in 1..Len(s)} :
        /\ u # <<>>
        /\ \A k \in DOMAIN u : u[k] \in UsernameChars
        /\ \E tail \in {<<>>, <<"/">>, <<"\n">>, <<"/", "\n">>} :
               EndsWith(s, InstagramComSlash \o u \o tail)}

is_valid_profile_url(url) ==
    IF url = <<>> THEN FALSE
    ELSE LET url_lower == Lower(url)
         IN  IF Contains(url_lower, FacebookCom) \/ Contains(url_lower, FbCom)
             THEN ~\E x \in FacebookInvalid : Contains(url_lower, x)
             ELSE IF Contains(url_lower, InstagramCom)
             THEN IF \E pattern \in InstagramInvalid : Contains(url_lower, pattern)
                  THEN FALSE
                  ELSE \E username \in UsernameMatch(url_lower) :
                           Len(username) > 2 /\ "/" \notin {username[k] : k \in DOMAIN username}
             ELSE FALSE

\* The URL each link of the blocks stands for.
HrefUrl ==
    "" :> <<>>
    @@ "profile" :> <<"h", "t", "t", "p", "s", ":", "/", "/", "f", "a", "c", "e", "b", "o", "o", "k", ".", "c", "o", "m", "/", "j", "o", "e">>
    @@ "redirect" :> <<"h", "t", "t", "p", "s", ":", "/", "/", "r", ".", "s", "e", "a", "r", "c", "h", ".", "y", "a", "h", "o", "o", ".", "c", "o", "m", "/", "a">>
    @@ "profile2" :> <<"h", "t", "t", "p", "s", ":", "/", "/", "I", "n", "s", "t", "a", "g", "r", "a", "m", ".", "c", "o", "m", "/", "j", "o", "e", "_", "9", "/">>
    @@ "reel" :> <<"h", "t", "t", "p", "s", ":", "/", "/", "i", "n", "s", "t", "a", "g", "r", "a", "m", ".", "c", "o", "m", "/", "r", "e", "e", "l", "/", "a", "b", "c">>
    @@ "help" :> <<"h", "t", "t", "p", "s", ":", "/", "/", "f", "a", "c", "e", "b", "o", "o", "k", ".", "c", "o", "m", "/", "h", "e", "l", "p", "/">>

\* is_valid_profile_url(href) for each of them.
ProfileVerdict == [href \in DOMAIN HrefUrl |-> is_valid_profile_url(HrefUrl[href])]

\* A validator that accepts every link.
ProfileAccepted_Any(href) == href # ""

\* Verdict of is_valid_profile_url on the link of a block.
ProfileAccepted(href) == ProfileVerdict[href]

\* The website of a lead in email-target mode: an http link, which for Yahoo
\* does not contain "yahoo".
EmailModeWebsite(b) ==
    IF b.href = "" THEN ""
    ELSE IF b.href = "redirect" /\ search_type = "yahoo_dork" THEN ""
    ELSE b.href

\* The name of a lead in profile-target mode: the title, or the link for Bing
\* and Google when the block has no title.
ProfileModeName(b) ==
    IF b.title # "" THEN b.title
    ELSE IF search_type = "yahoo_dork" THEN ""
    ELSE b.href

\* A test that takes no address for a placeholder.
IsPlaceholder_Never(email_lower) == FALSE

\* email_lower.endswith("@example.com")
IsPlaceholder(email_lower) == EndsWith(email_lower, Placeholder)

RECURSIVE FirstRealEmail(_, _)
\* for email in emails: the first lowercased address that is no placeholder.
FirstRealEmail(emails, i) ==
    IF i > Len(emails) THEN <<>>
    ELSE IF ~IsPlaceholder(Lower(emails[i])) THEN Lower(emails[i])
    ELSE FirstRealEmail(emails, i + 1)

\* A key that keeps the address as it was found.
EmailLower_AsFound(email) == email

\* email_lower = email.lower()
EmailLower(email) == Lower(email)

RECURSIVE ScanEmails(_, _, _, _)
\* Email-target mode, for email in emails: one lead per address that is new
\* and no placeholder; the lead carries the address as it was found.
ScanEmails(b, i, rs, sn) ==
    IF i > Len(b.emails) THEN [results |-> rs, seen |-> sn]
    ELSE LET email == b.emails[i]
             email_lower == EmailLower(email)
         IN  IF email_lower \notin sn /\ ~IsPlaceholder(email_lower)
             THEN ScanEmails(b, i + 1,
                             Append(rs, MkLead(b.title, b.phone, EmailModeWebsite(b), email)),
                             sn \cup {email_lower})
             ELSE ScanEmails(b, i + 1, rs, sn)

EmailLists == UNION {[1..n -> EmailTexts] : n \in 0..MaxBlockEmails}

\* The result blocks a page can hold; accepted is set when the block is processed.
Blocks ==
    {[emails |-> es, phone |-> p, href |-> h, title |-> t, accepted |-> FALSE] :
        es \in EmailLists, p \in BlockPhones, h \in Hrefs, t \in Titles}

BlockInit ==
    /\ search_type \in DorkTypes
    /\ target \in {"email", "profile"}
    /\ listings \in 1..MaxBlocks
    /\ pc = "blocks"
    /\ results = <<>>
    /\ seen = {}
    /\ block = NoBlock
    /\ UnitsIdle
    /\ max_scrolls = 0
    /\ results_limit = 0
    /\ scroll_count = 0
    /\ browser = "none"
    /\ driver = "none"
    /\ acquired = FALSE
    /\ exc = "none"
    /\ cause = "none"
    /\ cycles = 0
    /\ raw_results = <<>>
    /\ df = NoFrame
    /\ phone_arg = <<>>
    /\ validated = <<>>
    /\ revalidated = <<>>
    /\ captcha = FALSE
    /\ advance = NoAdvance
    /\ detail = NoDetail

\* if target == "profile": a lead for a valid profile link not seen before.
ProcessProfileBlock(b) ==
    /\ target = "profile"
    /\ IF b.href # "" /\ ProfileAccepted(b.href) /\ b.href \notin seen
       THEN /\ seen' = seen \cup {b.href}
            /\ results' = Append(results,
                                 MkLead(ProfileModeName(b), b.phone, b.href,
                                        FirstRealEmail(b.emails, 1)))
            /\ block' = [b EXCEPT !.accepted = TRUE]
       ELSE /\ UNCHANGED <<results, seen>>
            /\ block' = b

\* else: the addresses of the text of the block.
ProcessEmailBlock(b) ==
    /\ target = "email"
    /\ LET scanned == ScanEmails(b, 1, results, seen)
       IN  /\ results' = scanned.results
           /\ seen' = scanned.seen
    /\ block' = [b EXCEPT !.accepted = TRUE]

\* One pass of "for block in result_blocks": the inner try.
ProcessBlock ==
    /\ pc = "blocks"
    /\ listings > 0
    /\ \/ \E b \in Blocks : ProcessProfileBlock(b) \/ ProcessEmailBlock(b)
       \/ /\ block' = NoBlock           \* reading the block raised (caught)
          /\ UNCHANGED <<results, seen>>
    /\ listings' = listings - 1
    /\ pc' = IF listings' = 0 THEN "blocks_done" ELSE "blocks"
    /\ UNCHANGED <<search_type, target, max_scrolls, results_limit, scroll_count,
                   browser, driver, acquired, exc, cause, cycles, raw_results, df,
                   phone_arg, validated, revalidated, unitVars, pageVars>>

BlockNext == ProcessBlock

BlockSpec == BlockInit /\ [][BlockNext]_vars

EmittedEmailsLowercase ==
    \A i \in DOMAIN results : results[i].email = Lower(results[i].email)

(***************************************************************************)
(* ProfileSpec: a direct call of is_valid_profile_url on a URL kept        *)
(* character by character.                                                 *)
(***************************************************************************)
MaxUserLen == 4

\* A username of n characters.
UserName(n) ==
    [i \in 1..n |-> <<"j", "_", "9", ".", "d", "o">>[((i - 1) % 6) + 1]]

UrlSchemes ==
    { <<>>,
      <<"h", "t", "t", "p", "s", ":", "/", "/">> }

UrlHosts ==
    { <<"i", "n", "s", "t", "a", "g", "r", "a", "m", ".", "c", "o", "m">>,
      <<"w", "w", "w", ".", "I", "n", "s", "t", "a", "g", "r", "a", "m", ".", "c", "o", "m">>,
      <<"f", "a", "c", "e", "b", "o", "o", "k", ".", "c", "o", "m">>,
      <<"e", "x", "a", "m", "p", "l", "e", ".", "c", "o", "m">> }

\* Paths: none, a username, two segments, pages of the platform.
UrlPaths ==
    {<<>>} \cup {<<"/">> \o UserName(n) : n \in 1..MaxUserLen}
        \cup { <<"/", "j", "o", "h", "n", "/", "d", "o", "e">>,
             <<"/", "a", "c", "c", "o", "u", "n", "t", "s", "/", "l", "o", "g", "i", "n">>,
             <<"/", "p", "/", "C", "x", "y", "z">>,
             <<"/", "j", "o", "h", "n", "-", "d", "o", "e">> }

UrlSlashes ==
    { <<>>,
      <<"/">> }

UrlQueries ==
    { <<>>,
      <<"?", "i", "g", "s", "h", "i", "d", "=", "1">>,
      <<"?", "h", "l", "=", "e", "n">> }

ProfileUrls ==
    {s \o h \o p \o t \o q :
        s \in UrlSchemes, h \in UrlHosts, p \in UrlPaths, t \in UrlSlashes, q \in UrlQueries}

ProfileInit ==
    /\ profile \in {[url |-> u, valid |-> FALSE] : u \in ProfileUrls}
    /\ pc = "profile_call"
    /\ retry = NoRetry
    /\ limiter = NewRateLimiter(2, 5)
    /\ now = Epoch
    /\ wait_time = 0
    /\ parse = NoParse
    /\ phone_arg = <<>>
    /\ validated = <<>>
    /\ revalidated = <<>>
    /\ raw_results = <<>>
    /\ df = NoFrame
    /\ search_type = "none"
    /\ max_scrolls = 0
    /\ results_limit = 0
    /\ scroll_count = 0
    /\ results = <<>>
    /\ seen = {}
    /\ listings = 0
    /\ browser = "none"
    /\ driver = "none"
    /\ acquired = FALSE
    /\ exc = "none"
    /\ cause = "none"
    /\ cycles = 0
    /\ target = "profile"
    /\ block = NoBlock
    /\ captcha = FALSE
    /\ advance = NoAdvance
    /\ detail = NoDetail

\* The variables of the scraping run and of the pipeline.
runVars ==
    <<search_type, max_scrolls, results_limit, scroll_count, results, seen,
      listings, browser, driver, acquired, exc, cause, cycles, raw_results, df,
      target, phone_arg, validated, revalidated, block, captcha, advance, detail>>

CheckProfile ==
    /\ pc = "profile_call"
    /\ profile' = [profile EXCEPT !.valid = is_valid_profile_url(profile.url)]
    /\ pc' = "profile_done"
    /\ UNCHANGED <<retry, limiter, now, wait_time, parse, runVars>>

ProfileNext == CheckProfile

ProfileSpec == ProfileInit /\ [][ProfileNext]_vars

\* The text of s before its first "?".
StripQuery(s) ==
    IF \E i \in DOMAIN s : s[i] = "?"
    THEN SubSeq(s, 1, (CHOOSE i \in DOMAIN s : s[i] = "?" /\ \A j \in 1..(i - 1) : s[j] # "?") - 1)
    ELSE s

\* s without one slash at its end.
StripSlash(s) ==
    IF s # <<>> /\ s[Len(s)] = "/" THEN SubSeq(s, 1, Len(s) - 1) ELSE s

\* The path of s after "instagram.com/" is one segment of at least three
\* characters of [A-Za-z0-9_.].
SingleSegmentPath(s) ==
    \E i \in 1..(Len(s) - Len(InstagramComSlash) + 1) :
        /\ SubSeq(s, i, i + Len(InstagramComSlash) - 1) = InstagramComSlash
        /\ Len(s) - (i + Len(InstagramComSlash) - 1) >= 3
        /\ \A k \in (i + Len(InstagramComSlash))..Len(s) : s[k] \in UsernameChars

IsInstagramUrl(url) ==
    /\ Contains(Lower(url), InstagramCom)
    /\ ~Contains(Lower(url), FacebookCom)
    /\ ~Contains(Lower(url), FbCom)

\* C22: for an Instagram URL is_valid_profile_url returns true exactly when
\* the URL holds no denylisted path substring and its path, with the query
\* parameters and a trailing slash stripped, is one segment of at least
\* three characters of [A-Za-z0-9_.].
InstagramDecidedOnStrippedUrl ==
    (pc = "profile_done" /\ IsInstagramUrl(profile.url)) =>
        (profile.valid <=>
            /\ ~\E pattern \in InstagramInvalid : Contains(Lower(profile.url), pattern)
            /\ SingleSegmentPath(StripSlash(StripQuery(Lower(profile.url)))))

(***************************************************************************)
(* NameSpec: the business name a scraper gives the lead of one listing or  *)
(* result block, with the texts kept character by character.               *)
(***************************************************************************)
MaxTextLen == 101

\* [:100] of the names
NameLimit == 100

\* str.strip() for texts whose only whitespace is the space
Strip(s) ==
    LET inked == {i \in DOMAIN s : s[i] # " "}
    IN  IF inked = {} THEN <<>>
        ELSE SubSeq(s, CHOOSE i \in inked : \A j \in inked : i <= j,
                       CHOOSE i \in inked : \A j \in inked : j <= i)

\* s[:n]
Truncate(s, n) == IF Len(s) > n THEN SubSeq(s, 1, n) ELSE s

\* s.split(" - ")[0]
SplitFirst(s) ==
    LET sep == <<" ", "-", " ">>
        at == {i \in 1..(Len(s) - 2) : SubSeq(s, i, i + 2) = sep}
    IN  IF at = {} THEN s
        ELSE SubSeq(s, 1, (CHOOSE i \in at : \A j \in at : i <= j) - 1)

\* A text of n letters.
Text(n) == [i \in 1..n |-> "a"]

\* The text of a title element or aria-label: bare, between spaces, or
\* followed by " - " and a category.
ElementTexts ==
    {Text(n) : n \in 0..MaxTextLen}
        \cup {<<" ">> \o Text(n) \o <<" ">> : n \in 0..MaxTextLen}
        \cup {Text(n) \o <<" ", "-", " ", "b", "b">> : n \in 0..MaxTextLen}

\* Links: a listing link, a short and a long profile page.
ElementHrefs ==
    {<<"m">>, FacebookCom \o <<"/">> \o Text(3), FacebookCom \o <<"/">> \o Text(MaxTextLen)}

NameInit ==
    /\ search_type \in SearchTypes
    /\ target \in {"email", "profile"}
    /\ block \in {[text |-> t, element |-> e, href |-> h] :
                    t \in ElementTexts, e \in BOOLEAN, h \in ElementHrefs}
    /\ pc = "name_call"
    /\ results = <<>>
    /\ UnitsIdle
    /\ phone_arg = <<>>
    /\ validated = <<>>
    /\ revalidated = <<>>
    /\ raw_results = <<>>
    /\ df = NoFrame
    /\ max_scrolls = 0
    /\ results_limit = 0
    /\ scroll_count = 0
    /\ seen = {}
    /\ listings = 0
    /\ browser = "none"
    /\ driver = "none"
    /\ acquired = FALSE
    /\ exc = "none"
    /\ cause = "none"
    /\ cycles = 0
    /\ captcha = FALSE
    /\ advance = NoAdvance
    /\ detail = NoDetail

\* scrape_listing_details: the name from the aria-label of the listing.
ListingName(b) ==
    IF b.element /\ b.text # <<>>
    THEN Truncate(Strip(SplitFirst(b.text)), NameLimit)
    ELSE <<>>

\* The dork scrapers: the name from the title element; without one, or when
\* reading it raises, Bing and Google in profile-target mode take the link.
BlockName(b, readable) ==
    IF b.element /\ readable THEN Truncate(Strip(b.text), NameLimit)
    ELSE IF target = "profile" /\ search_type \in {"bing_dork", "google_dork"}
         THEN b.href
         ELSE <<>>

\* The lead of one listing or result block, as far as the name decides it.
BuildName ==
    /\ pc = "name_call"
    /\ IF search_type = "google_maps"
       THEN results' = IF ListingName(block) = <<>> THEN <<>>
                       ELSE <<MkLead(ListingName(block), NoPhone, block.href, <<>>)>>
       ELSE \E readable \in BOOLEAN :
                results' = IF target = "profile" /\ ~is_valid_profile_url(block.href)
                           THEN <<>>
                           ELSE <<MkLead(BlockName(block, readable), NoPhone, block.href, <<>>)>>
    /\ pc' = "name_done"
    /\ UNCHANGED <<search_type, target, block, unitVars, pageVars, phone_arg, validated,
                   revalidated, raw_results, df, max_scrolls, results_limit,
                   scroll_count, seen, listings, browser, driver, acquired, exc,
                   cause, cycles>>

NameNext == BuildName

NameSpec == NameInit /\ [][NameNext]_vars

\* C21: the business name of every emitted lead has at most 100 characters,
\* also a name set by a fallback when there is no title element.
NamesAtMost100 ==
    \A i \in DOMAIN results : Len(results[i].name) <= 100

(***************************************************************************)
(* RetrySpec: one call of a wrapper made by retry_on_failure(max_retries,  *)
(* delay) around a function that returns or raises at each invocation.     *)
(***************************************************************************)
MaxRetries == 3
MaxDelay == 2

\* Exceptions the wrapped function raises that "except Exception" catches.
ExceptionKinds == {"TimeoutError", "ValueError"}

\* A sleep of the same length after every failure.
RetryDelay_Constant(delay, attempt) == delay

\* delay * (attempt + 1)
RetryDelay(delay, attempt) == delay * (attempt + 1)

RetryInit ==
    /\ \E n \in -1..MaxRetries, d \in 0..MaxDelay :
           retry = [NoRetry EXCEPT !.max_retries = n, !.delay = d]
    /\ pc = "retry_loop"
    /\ profile = NoProfile
    /\ limiter = NewRateLimiter(2, 5)
    /\ now = Epoch
    /\ wait_time = 0
    /\ parse = NoParse
    /\ ScraperIdle
    /\ raw_results = <<>>
    /\ df = NoFrame
    /\ phone_arg = <<>>
    /\ validated = <<>>
    /\ revalidated = <<>>

\* One pass of "for attempt in range(max_retries)": the function is invoked
\* and returns, or raises an Exception (caught: a sleep follows unless this
\* was the last attempt), or the task is cancelled (not caught).
RetryAttempt ==
    /\ pc = "retry_loop"
    /\ retry.attempt < retry.max_retries
    /\ \/ /\ retry' = [retry EXCEPT !.calls = @ + 1, !.outcome = "returned"]
          /\ pc' = "retry_done"
       \/ /\ \E e \in ExceptionKinds :
                retry' = [retry EXCEPT
                            !.calls = @ + 1,
                            !.raised = Append(@, e),
                            !.slept = IF retry.attempt < retry.max_retries - 1
                                      THEN Append(@, RetryDelay(retry.delay, retry.attempt))
                                      ELSE @,
                            !.attempt = @ + 1]
          /\ pc' = "retry_loop"
       \/ /\ retry' = [retry EXCEPT !.calls = @ + 1, !.outcome = "CancelledError"]
          /\ pc' = "retry_done"
    /\ UNCHANGED <<profile, limiter, now, wait_time, parse, runVars>>

\* After the loop: raise last_exception (None when the loop had no pass).
RetryExhausted ==
    /\ pc = "retry_loop"
    /\ retry.attempt >= retry.max_retries
    /\ retry' = [retry EXCEPT
                   !.outcome = IF retry.raised = <<>> THEN "TypeError"
                               ELSE retry.raised[Len(retry.raised)]]
    /\ pc' = "retry_done"
    /\ UNCHANGED <<profile, limiter, now, wait_time, parse, runVars>>

RetryNext == RetryAttempt \/ RetryExhausted

RetrySpec == RetryInit /\ [][RetryNext]_vars

\* C23: with max_retries = n >= 1 the function is invoked at most n times and
\* never after a success; k failed attempts with k < n have been followed by
\* the sleeps d*1 .. d*k before the next invocation; a success ends the call
\* at once; when all n attempts have failed the exception of the n-th attempt
\* is propagated.
RetryContract ==
    (pc \in {"retry_loop", "retry_done"} /\ retry.max_retries >= 1) =>
        /\ retry.calls <= retry.max_retries
        /\ Len(retry.raised) \in {retry.calls, retry.calls - 1}
        /\ (pc = "retry_loop" /\ retry.attempt < retry.max_retries) =>
               /\ retry.calls = retry.attempt
               /\ Len(retry.raised) = retry.attempt
               /\ retry.slept = [k \in 1..retry.attempt |-> retry.delay * k]
        /\ retry.outcome = "returned" =>
               /\ pc = "retry_done"
               /\ Len(retry.raised) = retry.calls - 1
               /\ retry.slept = [k \in 1..(retry.calls - 1) |-> retry.delay * k]
        /\ (pc = "retry_done" /\ Len(retry.raised) = retry.max_retries) =>
               /\ retry.calls = retry.max_retries
               /\ retry.outcome = retry.raised[retry.max_retries]
               /\ retry.slept = [k \in 1..(retry.max_retries - 1) |-> retry.delay * k]

\* Three attempts failed, the last one differently from the first, with the
\* sleeps d and 2d between them; the last exception went to the caller.
AllAttemptsFailed ==
    /\ pc = "retry_done"
    /\ retry.max_retries = 3
    /\ retry.delay = 2
    /\ retry.calls = 3
    /\ retry.raised = <<"TimeoutError", "TimeoutError", "ValueError">>
    /\ retry.slept = <<2, 4>>
    /\ retry.outcome = "ValueError"

(***************************************************************************)
(* LimiterSpec: calls of RateLimiter.wait() on one instance, one after the *)
(* other, while time passes.  Times are whole ticks.                       *)
(***************************************************************************)
MaxMinDelay == 2    \* min_delay ranges over 1..MaxMinDelay
MaxJitter == 2      \* max_delay - min_delay ranges over 0..MaxJitter
MaxElapse == 8      \* the clock runs from Epoch to Epoch + MaxElapse

\* A sleep of the jitter alone.
WaitTime_JitterOnly(min_delay, elapsed, jitter) == jitter

\* self.min_delay - elapsed + random.uniform(0, self.max_delay - self.min_delay)
WaitTime(min_delay, elapsed, jitter) == min_delay - elapsed + jitter

LimiterInit ==
    /\ \E m \in 1..MaxMinDelay, j \in 0..MaxJitter : limiter = NewRateLimiter(m, m + j)
    /\ now = Epoch
    /\ wait_time = 0
    /\ pc = "wait_idle"
    /\ profile = NoProfile
    /\ retry = NoRetry
    /\ parse = NoParse
    /\ ScraperIdle
    /\ raw_results = <<>>
    /\ df = NoFrame
    /\ phone_arg = <<>>
    /\ validated = <<>>
    /\ revalidated = <<>>

\* Time passes between two calls of wait().
Tick ==
    /\ pc = "wait_idle"
    /\ now < Epoch + MaxElapse
    /\ now' = now + 1
    /\ UNCHANGED <<pc, limiter, wait_time, profile, retry, parse, runVars>>

\* wait(): elapsed is computed; the sleep is requested when it is too short.
WaitEnter ==
    /\ pc = "wait_idle"
    /\ now <= Epoch + MaxElapse
    /\ LET elapsed == now - limiter.last_request_time
       IN  IF elapsed < limiter.min_delay
           THEN /\ \E jitter \in 0..(limiter.max_delay - limiter.min_delay) :
                       wait_time' = WaitTime(limiter.min_delay, elapsed, jitter)
                /\ pc' = "wait_sleep"
           ELSE /\ wait_time' = 0
                /\ pc' = "wait_record"
    /\ UNCHANGED <<now, limiter, profile, retry, parse, runVars>>

\* await asyncio.sleep(wait_time): returns after wait_time or a little later.
WaitSleep ==
    /\ pc = "wait_sleep"
    /\ \E late \in 0..1 : now' = now + (IF wait_time > 0 THEN wait_time ELSE 0) + late
    /\ pc' = "wait_record"
    /\ UNCHANGED <<limiter, wait_time, profile, retry, parse, runVars>>

\* self.last_request_time = time.time()
WaitRecord ==
    /\ pc = "wait_record"
    /\ limiter' = [limiter EXCEPT !.last_request_time = now]
    /\ pc' = "wait_idle"
    /\ UNCHANGED <<now, wait_time, profile, retry, parse, runVars>>

LimiterNext == Tick \/ WaitEnter \/ WaitSleep \/ WaitRecord

LimiterSpec == LimiterInit /\ [][LimiterNext]_vars

\* C24: wait() returns only when min_delay has passed since the last recorded
\* action; the sleep it asks for is at most (min_delay - elapsed) +
\* (max_delay - min_delay); on return the time of completion is the new
\* last-action time, so two completions in a row are min_delay apart or more.
WaitKeepsMinDelay ==
    /\ [](pc = "wait_sleep" =>
            /\ wait_time >= limiter.min_delay - (now - limiter.last_request_time)
            /\ wait_time <= (limiter.min_delay - (now - limiter.last_request_time))
                              + (limiter.max_delay - limiter.min_delay))
    /\ [](pc = "wait_record" => now - limiter.last_request_time >= limiter.min_delay)
    /\ [][(pc = "wait_record" /\ pc' = "wait_idle") =>
            /\ limiter'.last_request_time = now'
            /\ limiter'.last_request_time - limiter.last_request_time >= limiter.min_delay]_vars

\* A second call of wait() slept, with jitter, and is about to return.
SecondWaitSlept ==
    /\ pc = "wait_record"
    /\ limiter.last_request_time >= Epoch
    /\ wait_time > limiter.min_delay - 1
    /\ wait_time > 1
    /\ now - limiter.last_request_time >= limiter.min_delay

\* C25: each navigation, scroll and page advance of a run is preceded by a
\* call of the rate limiter's wait(); so whenever one of these steps is
\* taken, the limiter holds the time of a completed wait().
ActionsPrecededByWait ==
    [][(/\ pc \in {"goto", "scroll", "advance"}
        /\ pc' \notin {pc, "finally"})
          => limiter.last_request_time >= Epoch]_vars

\* C26: while the page shows a CAPTCHA a paged scraper neither extracts
\* results nor advances the page: it is in none of the steps of the loop body.
NoExtractionDuringCaptcha ==
    (captcha /\ search_type # "google_maps") =>
        pc \notin {"scroll", "query", "items", "advance"}

\* C29: in a paged scraper a cycle in which neither the next-page control nor
\* the URL rewrite brought a new page is the last one: the loop is left.
FailedAdvanceStopsRun ==
    [][(/\ pc = "advance"
        /\ search_type # "google_maps"
        /\ pc' # "advance"
        /\ ~NextClicked(advance'))
          => pc' = "finally"]_vars

MaxPad == 1

email_indicators ==
    { <<"@", "g", "m", "a", "i", "l", ".", "c", "o", "m">>,
      <<"@", "y", "a", "h", "o", "o", ".", "c", "o", "m">>,
      <<"@", "h", "o", "t", "m", "a", "i", "l", ".", "c", "o", "m">>,
      <<"@", "o", "u", "t", "l", "o", "o", "k", ".", "c", "o", "m">>,
      <<"c", "o", "n", "t", "a", "c", "t", "@">>,
      <<"s", "i", "t", "e", ":">> }

social_indicators ==
    { <<"f", "a", "c", "e", "b", "o", "o", "k", ".", "c", "o", "m">>,
      <<"i", "n", "s", "t", "a", "g", "r", "a", "m", ".", "c", "o", "m">>,
      <<"f", "b", ".", "c", "o", "m">>,
      <<"f", "b", ".", "m", "e">> }

\* " in " and " near "
SepIn == <<" ", "i", "n", " ">>
SepNear == <<" ", "n", "e", "a", "r", " ">>

\* the default of os.getenv("DEFAULT_LOCATION", "New York")
NewYork == <<"N", "e", "w", " ", "Y", "o", "r", "k">>

\* os.getenv("DEFAULT_LOCATION", "New York")
GetEnv(env) == IF env.set THEN env.value ELSE NewYork

\* any(indicator in prompt_lower for indicator in indicators)
HasAny(prompt_lower, indicators) ==
    \E indicator \in indicators : Contains(prompt_lower, indicator)

PromptLower_AsTyped(search_prompt) == search_prompt

\* prompt_lower = search_prompt.lower()
PromptLower(search_prompt) == Lower(search_prompt)

\* s.split(sep, 1): the list of the parts
SplitOnce(s, sep) ==
    LET at == {i \in 1..(Len(s) - Len(sep) + 1) : SubSeq(s, i, i + Len(sep) - 1) = sep}
        first == CHOOSE i \in at : \A j \in at : i <= j
    IN  IF at = {} THEN <<s>>
        ELSE <<SubSeq(s, 1, first - 1), SubSeq(s, first + Len(sep), Len(s))>>

\* config as created at the top of the function
NewConfig ==
    [search_type |-> "maps", keywords |-> <<>>, location |-> <<>>, target |-> "email"]

\* parts = search_prompt.split(sep, 1); keywords = parts[0].strip();
\* location = parts[1].strip(). parts[1] of a one-element list raises.
SplitPrompt(config, search_prompt, sep) ==
    LET parts == SplitOnce(search_prompt, sep)
        named == [config EXCEPT !.keywords = Strip(parts[1])]
    IN  IF Len(parts) < 2
        THEN [raised |-> "IndexError", config |-> named]
        ELSE [raised |-> "none",
              config |-> [named EXCEPT !.location = Strip(parts[2])]]

parse_search_prompt(search_prompt, env) ==
    LET prompt_lower == PromptLower(search_prompt)
        dork == [NewConfig EXCEPT !.search_type = "dork", !.keywords = search_prompt]
    IN  IF HasAny(prompt_lower, social_indicators)
        THEN [raised |-> "none", config |-> [dork EXCEPT !.target = "profile"]]
        ELSE IF HasAny(prompt_lower, email_indicators)
        THEN [raised |-> "none", config |-> [dork EXCEPT !.target = "email"]]
        ELSE IF Contains(prompt_lower, SepIn)
        THEN SplitPrompt(NewConfig, search_prompt, SepIn)
        ELSE IF Contains(prompt_lower, SepNear)
        THEN SplitPrompt(NewConfig, search_prompt, SepNear)
        ELSE [raised |-> "none",
              config |-> [NewConfig EXCEPT !.keywords = search_prompt,
                                           !.location = GetEnv(env)]]

\* n spaces
Pad(n) == [i \in 1..n |-> " "]

\* What the user asks for.
PromptHeads ==
    { <<>>,
      <<"c", "a", "f", "e">>,
      <<" ", "T", "e", "a", " ", "b", "a", "r">>,
      <<"I", "n", "n", "s">> }

\* The word between what and where, as typed.
PromptSeps ==
    { <<>>,
      <<" ", "i", "n", " ">>,
      <<" ", "I", "N", " ">>,
      <<" ", "n", "e", "a", "r", " ">>,
      <<" ", "N", "e", "a", "r", " ">> }

\* Where, or the address pattern of a dork.
PromptTails ==
    { <<>>,
      <<"R", "o", "m", "e", " ">>,
      <<"R", "i", "o", " ", "i", "n", " ", "M", "a", "y">>,
      <<"f", "a", "c", "e", "b", "o", "o", "k", ".", "c", "o", "m", "/", "x">>,
      <<"I", "n", "s", "t", "a", "g", "r", "a", "m", ".", "C", "O", "M">>,
      <<"F", "B", ".", "m", "e", " ", "@", "G", "m", "a", "i", "l", ".", "c", "o", "m">>,
      <<"@", "y", "a", "h", "o", "o", ".", "c", "o", "m">>,
      <<"S", "I", "T", "E", ":", "a", ".", "i", "o">>,
      <<"C", "o", "n", "t", "a", "c", "t", "@">> }

\* DEFAULT_LOCATION: unset, set, set to the empty string.
Environments ==
    { [set |-> FALSE, value |-> <<>>],
      [set |-> TRUE, value |-> <<"L", "o", "s", " ", "A", "n", "g", "e", "l", "e", "s">>],
      [set |-> TRUE, value |-> <<>>] }

Prompts ==
    {h \o Pad(i) \o s \o Pad(j) \o t :
        h \in PromptHeads, i \in 0..MaxPad, s \in PromptSeps, j \in 0..MaxPad,
        t \in PromptTails}

ParseInit ==
    /\ parse \in {[NoParse EXCEPT !.prompt = p, !.env = e] :
                    p \in Prompts, e \in Environments}
    /\ pc = "parse_call"
    /\ profile = NoProfile
    /\ retry = NoRetry
    /\ limiter = NewRateLimiter(2, 5)
    /\ now = Epoch
    /\ wait_time = 0
    /\ ScraperIdle
    /\ raw_results = <<>>
    /\ df = NoFrame
    /\ phone_arg = <<>>
    /\ validated = <<>>
    /\ revalidated = <<>>

\* One call of parse_search_prompt.
ParseCall ==
    /\ pc = "parse_call"
    /\ LET r == parse_search_prompt(parse.prompt, parse.env)
       IN  parse' = [parse EXCEPT !.called = TRUE, !.raised = r.raised,
                                  !.config = r.config]
    /\ pc' = "parse_done"
    /\ UNCHANGED <<profile, retry, limiter, now, wait_time, runVars>>

ParseNext == ParseCall

ParseSpec == ParseInit /\ [][ParseNext]_vars

\* The prompt holds an email or a social indicator, in any case of letters.
HasIndicator(prompt) ==
    HasAny(Lower(prompt), email_indicators \cup social_indicators)

\* C27: for a prompt without email or social indicator the call returns
\* search_type "maps"; with " in " in the prompt (else " near ") the keywords
\* are the trimmed text before its first occurrence and the location the
\* trimmed text after it; otherwise the keywords are the whole prompt and the
\* location is DEFAULT_LOCATION, "New York" when it is unset.
MapsPromptSplit ==
    (parse.called /\ ~HasIndicator(parse.prompt)) =>
        /\ parse.raised = "none"
        /\ parse.config.search_type = "maps"
        /\ LET sep == IF Contains(parse.prompt, SepIn) THEN SepIn ELSE SepNear
               parts == SplitOnce(parse.prompt, sep)
           IN  IF Len(parts) = 2
               THEN /\ parse.config.keywords = Strip(parts[1])
                    /\ parse.config.location = Strip(parts[2])
               ELSE /\ parse.config.keywords = parse.prompt
                    /\ parse.config.location = GetEnv(parse.env)

\* C28: the call returns search_type "dork" with the whole unmodified prompt
\* as keywords exactly when the prompt holds an email or a social indicator in
\* any case of letters; then the target is "profile" when a social indicator
\* is present, also next to an email indicator, and "email" otherwise.
DorkExactlyOnIndicator ==
    parse.called =>
        /\ (/\ parse.raised = "none"
            /\ parse.config.search_type = "dork"
            /\ parse.config.keywords = parse.prompt) <=> HasIndicator(parse.prompt)
        /\ HasIndicator(parse.prompt) =>
               parse.config.target =
                   IF HasAny(Lower(parse.prompt), social_indicators)
                   THEN "profile" ELSE "email"

\* A prompt with a social and an email indicator, both with capitals, was
\* parsed as a profile dork.
MixedCaseProfileDork ==
    /\ parse.called
    /\ parse.prompt # Lower(parse.prompt)
    /\ HasAny(Lower(parse.prompt), social_indicators)
    /\ HasAny(Lower(parse.prompt), email_indicators)
    /\ parse.config.search_type = "dork"
    /\ parse.config.target = "profile"

\* C31: in email-target mode every accumulated lead has an email that is not
\* empty and is no placeholder, and no two accumulated leads have emails that
\* are equal ignoring case - whatever blocks were processed before, the same
\* block again or a block with several addresses.
EmailLeadsRealAndDistinct ==
    target = "email" =>
        /\ \A i \in DOMAIN results :
               /\ results[i].email # <<>>
               /\ ~EndsWith(Lower(results[i].email), Placeholder)
        /\ \A i, j \in DOMAIN results :
               Lower(results[i].email) = Lower(results[j].email) => i = j

\* The last block of the page held one address in two spellings; one lead
\* was accumulated for it in the whole pass.
TwoSpellingsOneLead ==
    /\ target = "email"
    /\ pc = "blocks_done"
    /\ cycles = 0
    /\ block.accepted
    /\ Len(block.emails) = 2
    /\ block.emails[1] # block.emails[2]
    /\ Lower(block.emails[1]) = Lower(block.emails[2])
    /\ Len(results) = 1

(***************************************************************************)
(* LinkSpec: the blocks of a results page in profile-target mode, their    *)
(* links judged by is_valid_profile_url on the URL itself.                 *)
(***************************************************************************)
\* Most blocks of the page.
MaxLinks == 3

\* The blocks: a link of HrefUrl, with or without a title and an address.
LinkedBlocks ==
    {[emails |-> es, phone |-> NoPhone, href |-> h, title |-> t, accepted |-> FALSE] :
        es \in {<<>>, <<<<"a", "@", "b", ".", "c", "o">>>>},
        h \in DOMAIN HrefUrl, t \in Titles}

LinkInit ==
    /\ search_type \in DorkTypes
    /\ target = "profile"
    /\ listings \in 1..MaxLinks
    /\ pc = "links"
    /\ results = <<>>
    /\ seen = {}
    /\ block = NoBlock
    /\ UnitsIdle
    /\ max_scrolls = 0
    /\ results_limit = 0
    /\ scroll_count = 0
    /\ browser = "none"
    /\ driver = "none"
    /\ acquired = FALSE
    /\ exc = "none"
    /\ cause = "none"
    /\ cycles = 0
    /\ raw_results = <<>>
    /\ df = NoFrame
    /\ phone_arg = <<>>
    /\ validated = <<>>
    /\ revalidated = <<>>
    /\ captcha = FALSE
    /\ advance = NoAdvance
    /\ detail = NoDetail

\* One pass of "for block in result_blocks" with target == "profile".
ProcessLinkedBlock ==
    /\ pc = "links"
    /\ listings > 0
    /\ \E b \in LinkedBlocks : ProcessProfileBlock(b)
    /\ listings' = listings - 1
    /\ pc' = IF listings' = 0 THEN "links_done" ELSE "links"
    /\ UNCHANGED <<search_type, target, max_scrolls, results_limit, scroll_count,
                   browser, driver, acquired, exc, cause, cycles, raw_results, df,
                   phone_arg, validated, revalidated, unitVars, pageVars>>

LinkNext == ProcessLinkedBlock

LinkSpec == LinkInit /\ [][LinkNext]_vars

\* C32: in profile-target mode the website of every accumulated lead passes
\* is_valid_profile_url, and no two accumulated leads have the same website.
ProfileLeadsValidAndDistinct ==
    target = "profile" =>
        /\ \A i \in DOMAIN results :
               is_valid_profile_url(HrefUrl[results[i].website])
        /\ \A i, j \in DOMAIN results :
               results[i].website = results[j].website => i = j

\* Two profiles were accumulated; the last block linked to one of them again
\* and gave no lead.
RepeatedProfileOnce ==
    /\ target = "profile"
    /\ pc = "links_done"
    /\ Len(results) = 2
    /\ ~block.accepted
    /\ block.href = results[1].website
    /\ results[2].website # results[1].website

(***************************************************************************)
(* FeedSpec: the scroll loop of scrape_google_maps over the feed of the    *)
(* map page, with scrape_listing_details step by step for each listing.    *)
(***************************************************************************)
\* Most listings of the feed, most cycles of the loop.
MaxFeed == 2
MaxFeedScrolls == 2

\* aria-label of a listing: absent, two spellings of one name, one of them
\* followed by " - " and more, and a label that starts with the separator.
AriaLabels ==
    { [element |-> FALSE, text |-> <<>>],
      [element |-> TRUE, text |-> <<"J", "o", "e">>],
      [element |-> TRUE, text |-> <<" ", "J", "O", "E", " ", "-", " ", "b">>],
      [element |-> TRUE, text |-> <<" ", "-", " ", "x">>] }

\* The i-th listing of the feed: its href names it, or is gone when read.
FeedElements(i) ==
    {[text |-> l.text, element |-> l.element, href |-> h] :
        l \in AriaLabels, h \in {"", "place" \o ToString(i)}}

\* The feeds a map page can hold after all scrolling.
Feeds ==
    {f \in [1..MaxFeed -> UNION {FeedElements(i) : i \in 1..MaxFeed}] :
        \A i \in 1..MaxFeed : f[i] \in FeedElements(i)}

\* What the three searches in body_text give: nothing, or a phone number, a
\* website and an address as business_data stores them.
DetailBodies ==
    { [phone |-> "", website |-> "", address |-> ""],
      [phone |-> "(555) 123-4567", website |-> "https://joe.example", address |-> "1 Main St"] }

FeedInit ==
    /\ search_type = "google_maps"
    /\ max_scrolls \in 0..MaxFeedScrolls
    /\ results_limit \in 1..MaxFeed
    /\ detail \in {[NoDetail EXCEPT !.feed = f] : f \in Feeds}
    /\ pc = "feed_loop"
    /\ scroll_count = 0
    /\ results = <<>>
    /\ seen = {}
    /\ listings = 0
    /\ browser = "open"
    /\ driver = "started"
    /\ acquired = TRUE
    /\ exc = "none"
    /\ cause = "none"
    /\ cycles = 0
    /\ target = "email"
    /\ block = NoBlock
    /\ captcha = FALSE
    /\ advance = NoAdvance
    /\ UnitsIdle
    /\ raw_results = <<>>
    /\ df = NoFrame
    /\ phone_arg = <<>>
    /\ validated = <<>>
    /\ revalidated = <<>>

\* The variables no step of the feed loop changes.
feedFrame ==
    <<search_type, max_scrolls, results_limit, browser, driver, acquired, exc,
      cause, cycles, raw_results, df, target, phone_arg, validated, revalidated,
      block, unitVars, captcha, advance>>

\* listing of "for listing in listings"
Listing == detail.feed[detail.shown - listings + 1]

\* while scroll_count < max_scrolls
FeedLoopTest ==
    /\ pc = "feed_loop"
    /\ pc' = IF LoopCondition THEN "feed_query" ELSE "feed_done"
    /\ UNCHANGED <<scroll_count, results, seen, listings, detail, feedFrame>>

\* page.query_selector_all('a[href*="/maps/place"]'): every listing of the
\* feed loaded so far, those of the earlier cycles included.
FeedQuery ==
    /\ pc = "feed_query"
    /\ \/ \E n \in detail.shown..Len(detail.feed) :
             /\ detail' = [detail EXCEPT !.shown = n]
             /\ listings' = n
             /\ pc' = IF n = 0 THEN "feed_advance" ELSE "details_name"
       \/ /\ listings' = 0              \* the query raised (caught)
          /\ pc' = "feed_advance"
          /\ UNCHANGED detail
    /\ UNCHANGED <<scroll_count, results, seen, feedFrame>>

HasName_Always(business_data) == TRUE

\* not (not business_data["Business Name"])
HasName(business_data) == business_data.name # <<>>

\* scrape_listing_details: business_data, the aria-label, the name test.
DetailsName ==
    /\ pc = "details_name"
    /\ \E readable \in BOOLEAN :
          LET business_data ==
                  [NoData EXCEPT !.name = IF readable THEN ListingName(Listing) ELSE <<>>]
          IN  /\ detail' = [detail EXCEPT
                               !.data = business_data,
                               !.failed = "none",
                               !.returned = IF HasName(business_data) THEN "nothing" ELSE "None"]
              /\ pc' = IF HasName(business_data) THEN "details_href" ELSE "feed_item"
    /\ UNCHANGED <<scroll_count, results, seen, listings, feedFrame>>

ReturnedAfterFailure_None(call) == "None"

\* except Exception of the outer try, then return business_data
ReturnedAfterFailure(call) == "data"

\* The outer except clause took over from the call that raised.
DetailsFailed(call) ==
    /\ detail' = [detail EXCEPT !.failed = IF @ = "none" THEN call ELSE @,
                                !.returned = ReturnedAfterFailure(call)]
    /\ pc' = "feed_item"

\* href = await listing_element.get_attribute("href")
DetailsHref ==
    /\ pc = "details_href"
    /\ \/ DetailsFailed("href")
       \/ /\ Listing.href = ""
          /\ detail' = [detail EXCEPT !.returned = "None"]
          /\ pc' = "feed_item"
       \/ /\ Listing.href # ""
          /\ pc' = "details_open"
          /\ UNCHANGED detail
    /\ UNCHANGED <<scroll_count, results, seen, listings, feedFrame>>

\* new_page = await context.new_page()
DetailsOpen ==
    /\ pc = "details_open"
    /\ \/ DetailsFailed("new_page")
       \/ /\ detail' = [detail EXCEPT
                           !.open = @ + 1,
                           !.opened = @ \cup {Listing.href},
                           !.reopened = IF Listing.href \in detail.opened
                                        THEN @ \cup {Listing.href} ELSE @]
          /\ pc' = "details_goto"
    /\ UNCHANGED <<scroll_count, results, seen, listings, feedFrame>>

\* await new_page.goto(href)
DetailsGoto ==
    /\ pc = "details_goto"
    /\ \/ DetailsFailed("goto")
       \/ /\ pc' = "details_read"
          /\ UNCHANGED detail
    /\ UNCHANGED <<scroll_count, results, seen, listings, feedFrame>>

\* The inner try: body_text and the three searches in it.
DetailsRead ==
    /\ pc = "details_read"
    /\ \/ detail' = [detail EXCEPT !.failed = "read"]
       \/ \E body \in DetailBodies :
             detail' = [detail EXCEPT !.data.phone = body.phone,
                                      !.data.website = body.website,
                                      !.data.address = body.address]
    /\ pc' = "details_close"
    /\ UNCHANGED <<scroll_count, results, seen, listings, feedFrame>>

\* await new_page.close(), then return business_data
DetailsClose ==
    /\ pc = "details_close"
    /\ \/ DetailsFailed("close")
       \/ /\ detail' = [detail EXCEPT !.open = @ - 1, !.returned = "data"]
          /\ pc' = "feed_item"
    /\ UNCHANGED <<scroll_count, results, seen, listings, feedFrame>>

BusinessKey_AsTyped(name) == name

\* business_data["Business Name"].strip().lower()
BusinessKey(name) == Lower(Strip(name))

\* scrape_google_maps with the value scrape_listing_details returned.
FeedItem ==
    /\ pc = "feed_item"
    /\ IF detail.returned = "data" /\ detail.data.name # <<>>
       THEN LET business_key == BusinessKey(detail.data.name)
            IN  IF business_key \notin seen
                THEN /\ seen' = seen \cup {business_key}
                     /\ results' = Append(results, detail.data)
                ELSE UNCHANGED <<results, seen>>
       ELSE UNCHANGED <<results, seen>>
    /\ listings' = listings - 1
    /\ pc' = IF listings' = 0 THEN "feed_advance" ELSE "details_name"
    /\ UNCHANGED <<scroll_count, detail, feedFrame>>

\* scroll_count += 1, the "More" button, the results limit.
FeedAdvance ==
    /\ pc = "feed_advance"
    /\ scroll_count' = scroll_count + 1
    /\ pc' = IF LimitReached THEN "feed_done" ELSE "feed_loop"
    /\ UNCHANGED <<results, seen, listings, detail, feedFrame>>

FeedNext ==
    \/ FeedLoopTest
    \/ FeedQuery
    \/ DetailsName
    \/ DetailsHref
    \/ DetailsOpen
    \/ DetailsGoto
    \/ DetailsRead
    \/ DetailsClose
    \/ FeedItem
    \/ FeedAdvance

FeedSpec == FeedInit /\ [][FeedNext]_vars

\* C33: in the map scraper no two accumulated leads have names that are equal
\* after trimming and lowercasing, and every accumulated lead has a name.
MapNamesDistinct ==
    search_type = "google_maps" =>
        /\ \A i \in DOMAIN results : results[i].name # <<>>
        /\ \A i, j \in DOMAIN results :
               Lower(Strip(results[i].name)) = Lower(Strip(results[j].name)) => i = j

\* The second listing has the name of the first in another spelling and was
\* not accumulated.
SecondSpellingDropped ==
    /\ pc = "feed_advance"
    /\ detail.shown = 2
    /\ detail.returned = "data"
    /\ Len(results) = 1
    /\ detail.data.name # results[1].name
    /\ Lower(Strip(detail.data.name)) = Lower(Strip(results[1].name))

\* C34: a listing seen in an earlier cycle is filtered out before extraction:
\* in one run no detail page is opened twice for the same listing.
NoListingOpenedTwice ==
    detail.reopened = {}

\* C35: at most one detail page is open at any time, and none is open when
\* scrape_listing_details has returned to the loop of the scraper, whatever
\* call failed.
DetailPageClosedOnReturn ==
    /\ detail.open <= 1
    /\ pc \in {"feed_loop", "feed_query", "feed_item", "feed_advance", "feed_done"} =>
           detail.open = 0

\* business_data carries the name and nothing else.
NameOnly(business_data) ==
    /\ business_data.name # <<>>
    /\ business_data = [NoData EXCEPT !.name = business_data.name]

\* The keys of the leads accumulated so far.
AccumulatedKeys == {Lower(Strip(results[i].name)) : i \in DOMAIN results}

\* C36 as stated: when loading or reading the detail page of a listing with
\* name and href failed, scrape_listing_details returns a lead with the name
\* only, and the scraper appends that lead to its results.
FailedDetailLeadAccumulated ==
    [][(pc = "feed_item" /\ detail.failed \in {"goto", "read"}) =>
           /\ detail.returned = "data"
           /\ NameOnly(detail.data)
           /\ results' = Append(results, detail.data)]_vars

\* C36, amended: the lead with the name only is returned, and the scraper
\* appends it unless a lead with the same trimmed, lowercased name was
\* accumulated before; then the results stay as they are.
FailedDetailLeadAccumulatedOnce ==
    [][(pc = "feed_item" /\ detail.failed \in {"goto", "read"}) =>
           /\ detail.returned = "data"
           /\ NameOnly(detail.data)
           /\ results' = IF Lower(Strip(detail.data.name)) \in AccumulatedKeys
                         THEN results
                         ELSE Append(results, detail.data)]_vars

\* The page of a listing did not load; its lead, the name only, is the last
\* of the results.
UnloadedListingKept ==
    /\ pc \in {"details_name", "feed_advance"}
    /\ detail.failed = "goto"
    /\ results # <<>>
    /\ results[Len(results)] = detail.data
    /\ NameOnly(detail.data)

\* C37: scrape_listing_details returns None and has opened no page when the
\* listing gave no name (no aria-label, an empty one, or the read failed) or
\* its href read as empty; a detail page is opened only in a call that has
\* got a name and an href.
PageOnlyForNamedListingWithHref ==
    /\ [](pc = "feed_item" =>
             ((detail.data.name = <<>> \/ (detail.failed = "none" /\ Listing.href = ""))
                 => detail.returned = "None"))
    /\ [](pc \in {"details_open", "details_goto", "details_read", "details_close"} =>
             (detail.data.name # <<>> /\ Listing.href # ""))
    /\ [][detail'.open > detail.open \/ detail'.opened # detail.opened =>
             (pc = "details_open" /\ detail.data.name # <<>> /\ Listing.href # "")]_vars

\* A listing with a name whose href read as empty: None came back and no
\* page was ever opened.
NamedListingWithoutHrefSkipped ==
    /\ pc = "feed_item"
    /\ detail.data.name # <<>>
    /\ detail.failed = "none"
    /\ Listing.href = ""
    /\ detail.returned = "None"
    /\ detail.opened = {}

\* C38: when _initialize_browser fails after the browser was launched, the
\* browser is closed and the driver is stopped before the failure reaches the
\* caller: no browser is left running.
FailedInitLeavesNoBrowser ==
    (cause = "init" /\ browser # "none" /\ pc # "init_browser") =>
        (browser = "closed" /\ driver = "stopped")

\* C39: parse_search_prompt raises for no prompt: also with " in " or " near "
\* in the lowercased prompt only, it returns a configuration.
ParseNeverRaises ==
    parse.called =>
        /\ parse.raised = "none"
        /\ parse.config.search_type \in {"maps", "dork"}

\* C40: a wrapper made with max_retries <= 0 still invokes the function at
\* least once, and ends with its result or with the exception it raised.
NoRetriesStillInvokes ==
    (pc = "retry_done" /\ retry.max_retries <= 0) =>
        /\ retry.calls >= 1
        /\ \/ retry.outcome \in {"returned", "CancelledError"}
           \/ /\ retry.raised # <<>>
              /\ retry.outcome = retry.raised[Len(retry.raised)]

====
